---- MODULE Spec2Model ----
(***************************************************************************)
(* Model of py-service/src/main.py: the FastAPI application whose lifespan *)
(* context manager brings three services up and down with asyncio.gather,  *)
(* whose /health route queries the services one after the other, and whose *)
(* global exception handler turns an escaping exception into a 500.        *)
(*                                                                         *)
(* The lifecycle state is the position of the lifespan coroutine:          *)
(*   Uninitialized   before the first gather is issued        (line 17)    *)
(*   Initializing    suspended in the await of lines 33-37                 *)
(*   Ready           suspended at the yield of line 39                     *)
(*   FailedStartup   left by the exception the first gather raised         *)
(*   ShuttingDown    suspended in the await of lines 42-46                 *)
(*   Stopped         returned after line 46                                *)
(*   ShutdownFailed  left by the exception the second gather raised        *)
(***************************************************************************)
EXTENDS Naturals, Sequences, FiniteSets, Bags, TLC

\* Bounds of the model: how many requests of each kind are explored.
MaxRequests == 2
MaxHealthChecks == 2
\* Bound of the model: how many times the exit of the lifespan context is run.
MaxExitCalls == 2
\* Bound of the model: how many requests at once may be between the response
\* of global_exception_handler and the raise of their exception to the server.
MaxPendingRaises == 1

\* app.state.fuzzy_match_service, graph_index_service, query_optimizer_service
\* in the order of the gather arguments and of the /health dictionary.
Registry == <<"fuzzy_match", "graph_index", "query_optimizer">>

Services == {Registry[i] : i \in 1..Len(Registry)}

\* Exceptions are a class name and the single constructor argument.
NoExc == [cls |-> "None", arg |-> ""]

\* The exceptions a request handler raises: plain exceptions, and the
\* HTTPException of line 7 (status code and detail).
RouteExceptions ==
  { [cls |-> "ValueError", arg |-> "bad input"],
    [cls |-> "RuntimeError", arg |-> ""],
    [cls |-> "KeyError", arg |-> "id"],
    [cls |-> "KeyError", arg |-> "it's a\\b"],
    [cls |-> "HTTPException", arg |-> "Not Found", status_code |-> 404] }

\* The exception a failing call of service s raises.
ServiceError(s) == [cls |-> "RuntimeError", arg |-> s]

\* TRUE iff the one-character string c occurs in the string s.
Contains(s, c) == \E i \in 1..Len(s) : SubSeq(s, i, i) = c

\* The quote Python's repr puts around a string: the single quote, unless
\* the string holds a single quote and no double quote.
ReprQuote(s) ==
  IF Contains(s, "'") /\ ~Contains(s, "\"") THEN "\"" ELSE "'"

\* How repr writes one character inside the quote q: a backslash and the
\* quote itself are escaped by a backslash, tab, newline and carriage return
\* are written as their escapes, a printable character is itself.
ReprChar(c, q) ==
  IF c = "\\" \/ c = q THEN "\\" \o c
  ELSE IF c = "\n" THEN "\\n"
  ELSE IF c = "\t" THEN "\\t"
  ELSE IF c = "\r" THEN "\\r"
  ELSE c

RECURSIVE ReprFrom(_, _, _)
ReprFrom(s, i, q) ==
  IF i > Len(s) THEN "" ELSE ReprChar(SubSeq(s, i, i), q) \o ReprFrom(s, i + 1, q)

\* Python's repr of a string of printable ASCII characters, tabs and newlines.
Repr(s) == ReprQuote(s) \o ReprFrom(s, 1, ReprQuote(s)) \o ReprQuote(s)

\* Python's str(exc): the argument for an exception built from one string,
\* except KeyError, which gives the repr of its argument, and HTTPException,
\* which gives "<status_code>: <detail>".
Str(exc) ==
  IF exc.cls = "KeyError" THEN Repr(exc.arg)
  ELSE IF exc.cls = "HTTPException"
    THEN ToString(exc.status_code) \o ": " \o exc.arg
  ELSE exc.arg

\* The literal of line 71, written with JSON's ASCII escapes.
ErrorMessage == "\\u5185\\u90e8\\u670d\\u52a1\\u5668\\u9519\\u8bef"

Pending == [st |-> "pending", exc |-> NoExc]
NotIssued == [st |-> "none", exc |-> NoExc]

NoResponse ==
  [code |-> 0, error |-> "", detail |-> "", status |-> "", services |-> <<>>]

VARIABLES
  initFails,     \* the services whose initialize() raises
  cleanupFails,  \* the services whose cleanup() raises
  lifecycle,     \* position of the lifespan coroutine
  initTask,      \* per service: task of initialize(): none/pending/done/raised
  initCalls,     \* per service: number of initialize() calls issued
  initGather,    \* outer future of the gather of lines 33-37
  startupError,  \* exception lifespan raised to the caller during startup
  cleanupTask,   \* per service: task of cleanup()
  cleanupCalls,  \* per service: number of cleanup() calls issued
  cleanupGather, \* outer future of the gather of lines 42-46
  shutdownError, \* exception lifespan raised to the caller during shutdown
  exitCalls,     \* number of times the lifespan context was asked to exit
  hcPos,         \* /health handler: 0 idle, i awaiting Registry[i].health_check()
  hcStatus,      \* /health handler: services_status built so far
  hcLog,         \* health_check() calls of the current check and their outcomes
  hcCount,       \* number of /health requests received
  reqCount,      \* number of other requests received
  lastRequest,   \* path of the last request answered
  lastExc,       \* exception handed to global_exception_handler, or NoExc
  serverExc,     \* exception raised on to the server since the last answer, or NoExc
  pendingRaise,  \* bag of the exceptions answered by global_exception_handler
                 \* and not yet raised on to the server, one copy per request
  lastResponse   \* response of the last request answered

vars == <<initFails, cleanupFails, lifecycle, initTask, initCalls, initGather, startupError,
          cleanupTask, cleanupCalls, cleanupGather, shutdownError, exitCalls,
          hcPos, hcStatus, hcLog, hcCount, reqCount, lastRequest, lastExc,
          serverExc, pendingRaise, lastResponse>>

startupVars == <<initFails, initTask, initCalls, initGather, startupError>>
shutdownVars == <<cleanupFails, cleanupTask, cleanupCalls, cleanupGather, shutdownError,
                  exitCalls>>
healthVars == <<hcPos, hcStatus, hcLog, hcCount>>
requestVars == <<reqCount, lastRequest, lastExc, serverExc, pendingRaise,
                 lastResponse>>

\* Variant of gather with return_exceptions=True: a child's exception is
\* collected as a result and the outer future never takes an exception.
gatherReturnExceptions(outer, tasks, exc) ==
  IF outer.st # "pending" THEN outer
  ELSE IF \A s \in Services : tasks[s] \in {"done", "raised"}
    THEN [st |-> "result", exc |-> NoExc]
  ELSE outer

\* Variant of gather that takes its result as soon as one child has finished
\* (the behaviour of a wait for the first completion).
gatherFirstCompleted(outer, tasks, exc) ==
  IF outer.st # "pending" THEN outer
  ELSE IF exc # NoExc THEN [st |-> "exception", exc |-> exc]
  ELSE IF \E s \in Services : tasks[s] = "done" THEN [st |-> "result", exc |-> NoExc]
  ELSE outer

\* Variant of gather whose outer future keeps the exception of the child
\* that failed last instead of the first.
gatherLastException(outer, tasks, exc) ==
  IF outer.st \in {"none", "result"} THEN outer
  ELSE IF exc # NoExc THEN [st |-> "exception", exc |-> exc]
  ELSE IF outer.st = "pending" /\ \A s \in Services : tasks[s] = "done"
    THEN [st |-> "result", exc |-> NoExc]
  ELSE outer

\* asyncio.gather(..., return_exceptions=False), its done callback: the outer
\* future takes the first exception raised by a child; it takes its result
\* when every child has finished; once set it is never set again.
gather(outer, tasks, exc) ==
  IF outer.st # "pending" THEN outer
  ELSE IF exc # NoExc THEN [st |-> "exception", exc |-> exc]
  ELSE IF \A s \in Services : tasks[s] = "done" THEN [st |-> "result", exc |-> NoExc]
  ELSE outer

\* Variant of all: any(services_status.values()).
any(services_status) ==
  \E i \in 1..Len(services_status) : services_status[i][2] = TRUE

\* all(services_status.values()) of line 101 over the (name, value) pairs.
all(services_status) ==
  \A i \in 1..Len(services_status) : services_status[i][2] = TRUE

\* health_check, lines 100-103: the body returned once the dictionary of
\* lines 94-98 is complete (answered with status code 200).
health_check(services_status) ==
  [code |-> 200, error |-> "", detail |-> "",
   status |-> IF all(services_status) THEN "healthy" ELSE "degraded",
   services |-> services_status]

\* Variant of global_exception_handler that reports the exception's class
\* instead of str(exc).
global_exception_handler_class(exc) ==
  [code |-> 500, error |-> ErrorMessage, detail |-> exc.cls,
   status |-> "", services |-> <<>>]

\* global_exception_handler, lines 66-72.
global_exception_handler(exc) ==
  [code |-> 500, error |-> ErrorMessage, detail |-> Str(exc),
   status |-> "", services |-> <<>>]

\* The handler the FastAPI application of lines 49-54 installs for
\* HTTPException: the exception's own status code and detail.
http_exception_handler(exc) ==
  [code |-> exc.status_code, error |-> "", detail |-> exc.arg,
   status |-> "", services |-> <<>>]

\* Line 66 registers global_exception_handler for the class Exception: an
\* exception leaving a request handler is given to the handler of its most
\* specific class, so an HTTPException never reaches global_exception_handler.
handled_by_global(exc) == exc.cls # "HTTPException"

\* The answer to a request whose handler raised exc.
exception_response(exc) ==
  IF handled_by_global(exc) THEN global_exception_handler(exc)
  ELSE http_exception_handler(exc)

\* TRUE iff the model explores one more request raising exc: an exception
\* answered by global_exception_handler needs room among the pending raises.
MayRaise(pending, exc) ==
  handled_by_global(exc) => BagCardinality(pending) < MaxPendingRaises

\* A handler registered for Exception runs in the server-error middleware,
\* which sends the handler's response and, once the send has returned, raises
\* the exception on to the server; the HTTPException handler's exception goes
\* no further. The exceptions left to be raised on after a request was
\* answered for exc.
server_error(pending, exc) ==
  IF handled_by_global(exc) THEN pending (+) SetToBag({exc}) ELSE pending

\* root, lines 81-88.
root ==
  [code |-> 200, error |-> "", detail |-> "", status |-> "running",
   services |-> <<>>]

\* A route of the included routers answers without raising (lines 76-78).
RouteOk ==
  [code |-> 200, error |-> "", detail |-> "", status |-> "", services |-> <<>>]

Init ==
  /\ initFails \in SUBSET Services
  /\ cleanupFails \in SUBSET Services
  /\ lifecycle = "Uninitialized"
  /\ initTask = [s \in Services |-> "none"]
  /\ initCalls = [s \in Services |-> 0]
  /\ initGather = NotIssued
  /\ startupError = NoExc
  /\ cleanupTask = [s \in Services |-> "none"]
  /\ cleanupCalls = [s \in Services |-> 0]
  /\ cleanupGather = NotIssued
  /\ shutdownError = NoExc
  /\ exitCalls = 0
  /\ hcPos = 0
  /\ hcStatus = <<>>
  /\ hcLog = <<>>
  /\ hcCount = 0
  /\ reqCount = 0
  /\ lastRequest = ""
  /\ lastExc = NoExc
  /\ serverExc = NoExc
  /\ pendingRaise = EmptyBag
  /\ lastResponse = NoResponse

\* Variant of LifespanStartup in which the first service is initialized a
\* second time (once more than the gather of lines 33-37 does).
LifespanStartupRepeated ==
  /\ lifecycle = "Uninitialized"
  /\ lifecycle' = "Initializing"
  /\ initTask' = [s \in Services |-> "pending"]
  /\ initCalls' = [s \in Services |->
                     initCalls[s] + (IF s = Registry[1] THEN 2 ELSE 1)]
  /\ initGather' = Pending
  /\ UNCHANGED <<initFails, startupError, shutdownVars, healthVars, requestVars>>

\* lifespan, lines 17-37: the services are constructed, one initialize() per
\* service is handed to gather, and lifespan suspends on the outer future.
LifespanStartup ==
  /\ lifecycle = "Uninitialized"
  /\ lifecycle' = "Initializing"
  /\ initTask' = [s \in Services |-> "pending"]
  /\ initCalls' = [s \in Services |-> initCalls[s] + 1]
  /\ initGather' = Pending
  /\ UNCHANGED <<initFails, startupError, shutdownVars, healthVars, requestVars>>

\* A pending initialize() task returns; gather's callback runs.
InitializeReturns(s) ==
  /\ initTask[s] = "pending"
  /\ s \notin initFails
  /\ initTask' = [initTask EXCEPT ![s] = "done"]
  /\ initGather' = gather(initGather, initTask', NoExc)
  /\ UNCHANGED <<initFails, lifecycle, initCalls, startupError, shutdownVars, healthVars,
                 requestVars>>

\* A pending initialize() task raises; gather's callback runs.
InitializeRaises(s) ==
  /\ initTask[s] = "pending"
  /\ s \in initFails
  /\ initTask' = [initTask EXCEPT ![s] = "raised"]
  /\ initGather' = gather(initGather, initTask', ServiceError(s))
  /\ UNCHANGED <<initFails, lifecycle, initCalls, startupError, shutdownVars, healthVars,
                 requestVars>>

\* Variant of LifespanStartupResume with a timeout on the await of line 33:
\* lifespan is also resumed, with a TimeoutError, while gather is pending.
LifespanStartupResumeTimeout ==
  /\ lifecycle = "Initializing"
  /\ IF initGather.st = "result"
       THEN /\ lifecycle' = "Ready"
            /\ UNCHANGED startupError
       ELSE /\ lifecycle' = "FailedStartup"
            /\ startupError' = IF initGather.st = "exception"
                                 THEN initGather.exc
                                 ELSE [cls |-> "TimeoutError", arg |-> ""]
  /\ UNCHANGED <<initFails, initTask, initCalls, initGather, shutdownVars, healthVars,
                 requestVars>>

\* lifespan resumes from the await of line 33: with a result it reaches the
\* yield of line 39, with an exception it is left and the caller sees it.
LifespanStartupResume ==
  /\ lifecycle = "Initializing"
  /\ initGather.st # "pending"
  /\ IF initGather.st = "result"
       THEN /\ lifecycle' = "Ready"
            /\ UNCHANGED startupError
       ELSE /\ lifecycle' = "FailedStartup"
            /\ startupError' = initGather.exc
  /\ UNCHANGED <<initFails, initTask, initCalls, initGather, shutdownVars, healthVars,
                 requestVars>>

\* Variant of LifespanShutdown in which the cleanup of lines 42-46 sits in a
\* finally clause and so also runs after a failed startup.
LifespanShutdownFinally ==
  /\ \/ lifecycle = "Ready" /\ hcPos = 0 /\ pendingRaise = EmptyBag
     \/ lifecycle = "FailedStartup" /\ exitCalls = 0
  /\ lifecycle' = "ShuttingDown"
  /\ cleanupTask' = [s \in Services |-> "pending"]
  /\ cleanupCalls' = [s \in Services |-> cleanupCalls[s] + 1]
  /\ cleanupGather' = Pending
  /\ exitCalls' = exitCalls + 1
  /\ UNCHANGED <<cleanupFails, shutdownError, startupVars, healthVars,
                 requestVars>>

\* lifespan, lines 39-46: resumed after the yield once no request is being
\* handled; one cleanup() per service is handed to gather.
LifespanShutdown ==
  /\ lifecycle = "Ready"
  /\ hcPos = 0
  /\ pendingRaise = EmptyBag
  /\ lifecycle' = "ShuttingDown"
  /\ cleanupTask' = [s \in Services |-> "pending"]
  /\ cleanupCalls' = [s \in Services |-> cleanupCalls[s] + 1]
  /\ cleanupGather' = Pending
  /\ exitCalls' = exitCalls + 1
  /\ UNCHANGED <<cleanupFails, shutdownError, startupVars, healthVars,
                 requestVars>>

CleanupReturns(s) ==
  /\ cleanupTask[s] = "pending"
  /\ s \notin cleanupFails
  /\ cleanupTask' = [cleanupTask EXCEPT ![s] = "done"]
  /\ cleanupGather' = gather(cleanupGather, cleanupTask', NoExc)
  /\ UNCHANGED <<cleanupFails, lifecycle, cleanupCalls, shutdownError, exitCalls,
                 startupVars, healthVars, requestVars>>

CleanupRaises(s) ==
  /\ cleanupTask[s] = "pending"
  /\ s \in cleanupFails
  /\ cleanupTask' = [cleanupTask EXCEPT ![s] = "raised"]
  /\ cleanupGather' = gather(cleanupGather, cleanupTask', ServiceError(s))
  /\ UNCHANGED <<cleanupFails, lifecycle, cleanupCalls, shutdownError, exitCalls,
                 startupVars, healthVars, requestVars>>

\* lifespan resumes from the await of line 42: with a result it returns,
\* with an exception it is left and the caller sees the exception.
LifespanShutdownResume ==
  /\ lifecycle = "ShuttingDown"
  /\ cleanupGather.st # "pending"
  /\ IF cleanupGather.st = "result"
       THEN /\ lifecycle' = "Stopped"
            /\ UNCHANGED shutdownError
       ELSE /\ lifecycle' = "ShutdownFailed"
            /\ shutdownError' = cleanupGather.exc
  /\ UNCHANGED <<cleanupFails, cleanupTask, cleanupCalls, cleanupGather, exitCalls,
                 startupVars, healthVars, requestVars>>

\* Variant of LifespanShutdownAgain in which the code after the yield is run
\* again: a second round of cleanup() calls is handed to gather.
LifespanShutdownAgainRerun ==
  /\ lifecycle \in {"Stopped", "ShutdownFailed", "FailedStartup"}
  /\ exitCalls < MaxExitCalls
  /\ exitCalls' = exitCalls + 1
  /\ lifecycle' = "ShuttingDown"
  /\ cleanupTask' = [s \in Services |-> "pending"]
  /\ cleanupCalls' = [s \in Services |-> cleanupCalls[s] + 1]
  /\ cleanupGather' = Pending
  /\ UNCHANGED <<cleanupFails, shutdownError, startupVars, healthVars,
                 requestVars>>

\* The exit of the lifespan context is run once lifespan has finished (it
\* returned after line 46 or was left by an exception): lifespan is a
\* generator with the single yield of line 39 (lines 16-17), a finished
\* generator runs no statement when resumed, so no cleanup() is issued and
\* nothing is raised.
LifespanShutdownAgain ==
  /\ lifecycle \in {"Stopped", "ShutdownFailed", "FailedStartup"}
  /\ exitCalls < MaxExitCalls
  /\ exitCalls' = exitCalls + 1
  /\ UNCHANGED <<lifecycle, cleanupFails, cleanupTask, cleanupCalls, cleanupGather,
                 shutdownError, startupVars, healthVars, requestVars>>

\* The services whose health_check() the handler of lines 94-98 has called
\* so far in the check in progress: the awaits are evaluated one after the
\* other, so while Registry[hcPos] is awaited the later ones are not called.
HcIssued == {Registry[i] : i \in 1..hcPos}

\* GET /health arrives while the application serves; health_check starts the
\* dictionary of line 94 and awaits the first service.
HealthCheckStart ==
  /\ lifecycle = "Ready"
  /\ hcPos = 0
  /\ hcCount < MaxHealthChecks
  /\ hcPos' = 1
  /\ hcStatus' = <<>>
  /\ hcLog' = <<>>
  /\ hcCount' = hcCount + 1
  /\ UNCHANGED <<lifecycle, startupVars, shutdownVars, requestVars>>

\* Variant of HealthCheckReturns in which a degraded verdict is written to the
\* lifecycle state.
HealthCheckReturnsDegrading(v) ==
  /\ hcPos \in 1..Len(Registry)
  /\ hcLog' = Append(hcLog, [svc |-> Registry[hcPos], raised |-> FALSE, value |-> v])
  /\ hcStatus' = Append(hcStatus, <<Registry[hcPos], v>>)
  /\ IF hcPos = Len(Registry)
       THEN /\ hcPos' = 0
            /\ lastResponse' = health_check(hcStatus')
            /\ lastRequest' = "/health"
            /\ lastExc' = NoExc
            /\ serverExc' = NoExc
            /\ lifecycle' = IF lastResponse'.status = "degraded"
                              THEN "Degraded" ELSE lifecycle
       ELSE /\ hcPos' = hcPos + 1
            /\ UNCHANGED <<lifecycle, lastRequest, lastResponse, lastExc, serverExc>>
  /\ UNCHANGED <<startupVars, shutdownVars, hcCount, reqCount, pendingRaise>>

\* The awaited health_check() of Registry[hcPos] returns v (lines 95-97);
\* after the last one the response of lines 100-103 is produced.
HealthCheckReturns(v) ==
  /\ hcPos \in 1..Len(Registry)
  /\ hcLog' = Append(hcLog, [svc |-> Registry[hcPos], raised |-> FALSE, value |-> v])
  /\ hcStatus' = Append(hcStatus, <<Registry[hcPos], v>>)
  /\ IF hcPos = Len(Registry)
       THEN /\ hcPos' = 0
            /\ lastResponse' = health_check(hcStatus')
            /\ lastRequest' = "/health"
            /\ lastExc' = NoExc
            /\ serverExc' = NoExc
       ELSE /\ hcPos' = hcPos + 1
            /\ UNCHANGED <<lastRequest, lastResponse, lastExc, serverExc>>
  /\ UNCHANGED <<lifecycle, startupVars, shutdownVars, hcCount, reqCount,
                 pendingRaise>>

\* The awaited health_check() of Registry[hcPos] raises: the exception leaves
\* the handler of lines 92-103 and reaches global_exception_handler, whose
\* response is sent; the exception is left to be raised on to the server.
HealthCheckRaises ==
  /\ hcPos \in 1..Len(Registry)
  /\ MayRaise(pendingRaise, ServiceError(Registry[hcPos]))
  /\ hcLog' = Append(hcLog, [svc |-> Registry[hcPos], raised |-> TRUE, value |-> FALSE])
  /\ hcPos' = 0
  /\ lastRequest' = "/health"
  /\ lastExc' = ServiceError(Registry[hcPos])
  /\ lastResponse' = exception_response(lastExc')
  /\ serverExc' = NoExc
  /\ pendingRaise' = server_error(pendingRaise, lastExc')
  /\ UNCHANGED <<lifecycle, startupVars, shutdownVars, hcStatus, hcCount, reqCount>>

\* GET / (lines 81-88).
RootRequest ==
  /\ lifecycle = "Ready"
  /\ reqCount < MaxRequests
  /\ reqCount' = reqCount + 1
  /\ lastRequest' = "/"
  /\ lastExc' = NoExc
  /\ serverExc' = NoExc
  /\ lastResponse' = root
  /\ UNCHANGED <<lifecycle, startupVars, shutdownVars, healthVars, pendingRaise>>

\* A request to one of the routers of lines 76-78 is answered by its handler.
RouteReturns ==
  /\ lifecycle = "Ready"
  /\ reqCount < MaxRequests
  /\ reqCount' = reqCount + 1
  /\ lastRequest' = "/api/v1"
  /\ lastExc' = NoExc
  /\ serverExc' = NoExc
  /\ lastResponse' = RouteOk
  /\ UNCHANGED <<lifecycle, startupVars, shutdownVars, healthVars, pendingRaise>>

\* A request handler raises exc: the handler registered for its class builds
\* the answer (global_exception_handler unless exc is an HTTPException), which
\* is sent; an exception answered by global_exception_handler is left to be
\* raised on to the server.
RouteRaises(exc) ==
  /\ lifecycle = "Ready"
  /\ reqCount < MaxRequests
  /\ MayRaise(pendingRaise, exc)
  /\ reqCount' = reqCount + 1
  /\ lastRequest' = "/api/v1"
  /\ lastExc' = IF handled_by_global(exc) THEN exc ELSE NoExc
  /\ lastResponse' = exception_response(exc)
  /\ serverExc' = NoExc
  /\ pendingRaise' = server_error(pendingRaise, exc)
  /\ UNCHANGED <<lifecycle, startupVars, shutdownVars, healthVars>>

\* The exceptions global_exception_handler answers in the model: those of the
\* routes and those of the services' health_check().
Raisable ==
  {exc \in RouteExceptions : handled_by_global(exc)}
    \cup {ServiceError(s) : s \in Services}

\* The send of a response built by global_exception_handler has returned:
\* the server-error middleware raises the request's exception on to the
\* server. Other requests may have been answered since that response.
ServerErrorRaises(exc) ==
  /\ BagIn(exc, pendingRaise)
  /\ pendingRaise' = pendingRaise (-) SetToBag({exc})
  /\ serverExc' = exc
  /\ UNCHANGED <<lifecycle, startupVars, shutdownVars, healthVars, reqCount,
                 lastRequest, lastExc, lastResponse>>

Next ==
  \/ LifespanStartup
  \/ \E s \in Services : InitializeReturns(s)
  \/ \E s \in Services : InitializeRaises(s)
  \/ LifespanStartupResume
  \/ LifespanShutdown
  \/ \E s \in Services : CleanupReturns(s)
  \/ \E s \in Services : CleanupRaises(s)
  \/ LifespanShutdownResume
  \/ LifespanShutdownAgain
  \/ HealthCheckStart
  \/ \E v \in BOOLEAN : HealthCheckReturns(v)
  \/ HealthCheckRaises
  \/ RootRequest
  \/ RouteReturns
  \/ \E exc \in RouteExceptions : RouteRaises(exc)
  \/ \E exc \in Raisable : ServerErrorRaises(exc)

Spec == Init /\ [][Next]_vars

\* The event loop runs every callback that is ready, so lifespan is started
\* and is resumed once a gather's outer future is set; every issued
\* initialize, cleanup and health_check call completes, every response that
\* is being sent is sent, and the shutdown trigger arrives once the
\* application serves and no request is in progress.
Fairness ==
  /\ WF_vars(LifespanStartup)
  /\ WF_vars(LifespanStartupResume)
  /\ WF_vars(LifespanShutdown)
  /\ WF_vars(LifespanShutdownResume)
  /\ \A s \in Services :
       /\ WF_vars(InitializeReturns(s))
       /\ WF_vars(InitializeRaises(s))
       /\ WF_vars(CleanupReturns(s))
       /\ WF_vars(CleanupRaises(s))
  /\ WF_vars((\E v \in BOOLEAN : HealthCheckReturns(v)) \/ HealthCheckRaises)
  /\ WF_vars(\E exc \in Raisable : ServerErrorRaises(exc))

FairSpec == Spec /\ Fairness

(***************************************************************************)
(* Properties                                                              *)
(***************************************************************************)

AfterStartup == {"Ready", "ShuttingDown", "Stopped", "ShutdownFailed"}
ShutdownRun == {"ShuttingDown", "Stopped", "ShutdownFailed"}

\* C1: when every initialize succeeds, each service's initialize has been
\* issued exactly once as soon as startup has begun, and once startup has
\* ended the lifespan has reached Ready (never FailedStartup) and no error
\* was raised to the caller.
C1_StartupAllSucceed ==
  initFails = {} =>
    /\ lifecycle # "Uninitialized" => \A s \in Services : initCalls[s] = 1
    /\ lifecycle \notin {"Uninitialized", "Initializing"} =>
         /\ lifecycle \in AfterStartup
         /\ startupError = NoExc

C1_Witness ==
  /\ initFails = {}
  /\ lifecycle = "Ready"
  /\ \A s \in Services : initCalls[s] = 1 /\ initTask[s] = "done"

\* C2: when at least one initialize fails, startup can only end in
\* FailedStartup, with the exception of a failing service raised to the
\* caller; Ready is never entered and no request is ever served.
C2_StartupFailure ==
  initFails # {} =>
    /\ lifecycle \in {"Uninitialized", "Initializing", "FailedStartup"}
    /\ lifecycle = "FailedStartup" =>
         \E s \in initFails : startupError = ServiceError(s)
    /\ reqCount = 0 /\ hcCount = 0 /\ lastResponse = NoResponse

C2_Witness ==
  /\ lifecycle = "FailedStartup"
  /\ startupError # NoExc
  /\ \E s \in Services : initTask[s] = "done"
  /\ \E s \in Services : initTask[s] = "raised"

\* C3 (as claimed): shutdown issues cleanup exactly once on every service
\* and, whichever cleanups raise, ends in Stopped.
C3_ShutdownAlwaysStopped ==
  lifecycle \in ShutdownRun =>
    /\ \A s \in Services : cleanupCalls[s] = 1
    /\ lifecycle \in {"ShuttingDown", "Stopped"}

\* C4 (as claimed): whatever the cleanups do, no exception is surfaced to
\* the caller of shutdown.
C4_CleanupFailureContained ==
  /\ shutdownError = NoExc
  /\ cleanupGather.st # "exception"

\* C5 (as claimed): a health check in which a health_check() raised is
\* answered with a report that marks that service unhealthy, not with an
\* error response.
C5_HealthCheckFailureContained ==
  (/\ hcPos = 0
   /\ lastRequest = "/health"
   /\ \E i \in 1..Len(hcLog) : hcLog[i].raised) =>
    /\ lastResponse.code = 200
    /\ lastResponse.status = "degraded"
    /\ \A i \in 1..Len(hcLog) :
         hcLog[i].raised =>
           \E j \in 1..Len(lastResponse.services) :
             lastResponse.services[j] = <<hcLog[i].svc, FALSE>>

\* C6 (as claimed): after a failed startup the shutdown half of lifespan can
\* still be run.
C6_ShutdownAfterFailedStartup ==
  lifecycle = "FailedStartup" => ENABLED LifespanShutdown

\* C7: whenever the lifespan is at Ready, or a request or health check has
\* been accepted, every service's initialize has completed successfully.
C7_ReadyImpliesInitialized ==
  (lifecycle = "Ready" \/ reqCount > 0 \/ hcCount > 0) =>
    \A s \in Services : initTask[s] = "done"

C7_Witness ==
  /\ lifecycle = "Ready"
  /\ hcCount > 0
  /\ reqCount > 0
  /\ \A s \in Services : initTask[s] = "done"

\* C8: a health report that was returned has one entry per registered
\* service, in registry order, each the value that service's health_check
\* returned, and its verdict is healthy iff every entry is true, degraded
\* otherwise.
C8_HealthVerdict ==
  (hcPos = 0 /\ lastRequest = "/health" /\ lastResponse.code = 200) =>
    /\ Len(lastResponse.services) = Len(Registry)
    /\ Len(hcLog) = Len(Registry)
    /\ \A i \in 1..Len(Registry) :
         /\ hcLog[i].svc = Registry[i]
         /\ lastResponse.services[i] = <<Registry[i], hcLog[i].value>>
    /\ lastResponse.status \in {"healthy", "degraded"}
    /\ lastResponse.status = "healthy" <=>
         \A i \in 1..Len(Registry) : hcLog[i].value = TRUE

C8_Witness ==
  /\ hcPos = 0
  /\ lastRequest = "/health"
  /\ lastResponse.status = "degraded"
  /\ lastResponse.services =
       <<<<"fuzzy_match", TRUE>>, <<"graph_index", FALSE>>,
         <<"query_optimizer", TRUE>>>>

\* The exception that leaves the request handler in the step taken, NoExc
\* when the step is not one in which a handler raises (a raising step always
\* changes hcPos or reqCount).
EscapingExc ==
  IF hcPos' = hcPos /\ reqCount' = reqCount THEN NoExc
  ELSE IF HealthCheckRaises THEN ServiceError(Registry[hcPos])
  ELSE IF \E exc \in RouteExceptions : RouteRaises(exc)
    THEN CHOOSE exc \in RouteExceptions : RouteRaises(exc)
  ELSE NoExc

C10_HealthCheckFrame ==
  [][(HealthCheckStart \/ (\E v \in BOOLEAN : HealthCheckReturns(v))
        \/ HealthCheckRaises) =>
       /\ lifecycle = "Ready"
       /\ lifecycle' = "Ready"
       /\ UNCHANGED <<startupVars, shutdownVars, reqCount>>]_vars

C10_Witness ==
  /\ hcPos = 0
  /\ lastRequest = "/health"
  /\ lastResponse.status = "degraded"
  /\ lifecycle = "Ready"
  /\ \A s \in Services : cleanupCalls[s] = 0

\* C11: a second run of the shutdown half after lifespan returned (Stopped)
\* issues no cleanup, raises nothing and leaves the state Stopped, with every
\* cleanup still issued exactly once.
C11_ShutdownIdempotent ==
  [][(LifespanShutdownAgain /\ lifecycle = "Stopped") =>
       /\ lifecycle' = "Stopped"
       /\ cleanupCalls' = cleanupCalls
       /\ \A s \in Services : cleanupCalls'[s] = 1 /\ cleanupTask'[s] = "done"
       /\ cleanupGather' = cleanupGather
       /\ shutdownError' = NoExc]_vars

C11_Witness ==
  /\ lifecycle = "Stopped"
  /\ exitCalls = 2
  /\ \A s \in Services : cleanupCalls[s] = 1
  /\ shutdownError = NoExc

LifecycleEdges ==
  { <<"Uninitialized", "Initializing">>, <<"Initializing", "Ready">>,
    <<"Initializing", "FailedStartup">>, <<"Ready", "ShuttingDown">>,
    <<"FailedStartup", "ShuttingDown">>, <<"ShuttingDown", "Stopped">> }

\* C12 (as claimed): the lifecycle state changes only along the listed
\* edges, Stopped is terminal, and from Stopped no initialize or cleanup is
\* issued.
C12_LifecycleEdges ==
  [][/\ lifecycle' # lifecycle => <<lifecycle, lifecycle'>> \in LifecycleEdges
     /\ lifecycle = "Stopped" =>
          /\ lifecycle' = "Stopped"
          /\ initCalls' = initCalls
          /\ cleanupCalls' = cleanupCalls]_vars

\* C13 (as claimed): once the shutdown half of lifespan has ended, no
\* cleanup call is still in flight, also when another cleanup failed.
C13_ShutdownJoinsAll ==
  lifecycle \in {"Stopped", "ShutdownFailed"} =>
    \A s \in Services : cleanupTask[s] \in {"done", "raised"}

\* C14: as soon as gather holds the exception of a failing initialize,
\* lifespan can be resumed with it although siblings are still pending; the
\* pending siblings are not cancelled (they can still return or raise); and
\* nothing they do later changes gather's exception, the state FailedStartup
\* or the error that was raised to the caller.
C14_FailFastStartup ==
  /\ [](lifecycle = "Initializing" /\ initGather.st = "exception"
          => ENABLED LifespanStartupResume)
  /\ [](lifecycle = "FailedStartup" =>
          \A s \in Services :
            initTask[s] = "pending" =>
              ENABLED (InitializeReturns(s) \/ InitializeRaises(s)))
  /\ [][initGather.st = "exception" =>
          /\ initGather' = initGather
          /\ lifecycle' \in {"Initializing", "FailedStartup"}
          /\ lifecycle = "FailedStartup" =>
               /\ lifecycle' = "FailedStartup"
               /\ startupError' = startupError
               /\ startupError' = initGather.exc]_vars

C14_Witness ==
  /\ lifecycle = "FailedStartup"
  /\ \E s \in Services : initTask[s] = "pending"
  /\ \E s \in Services :
       initTask[s] = "raised" /\ startupError # ServiceError(s)
  /\ \E s \in Services :
       initTask[s] = "raised" /\ startupError = ServiceError(s)

\* C15 (as claimed): while a health check is in progress every service's
\* health_check has already been issued, and a finished check has queried
\* every registered service exactly once whatever the calls did.
C15_HealthFanOut ==
  /\ hcPos > 0 => HcIssued = Services
  /\ (hcPos = 0 /\ hcCount > 0) =>
       \A s \in Services :
         Cardinality({i \in 1..Len(hcLog) : hcLog[i].svc = s}) = 1

\* C16: no step moves lifespan out of Initializing while an initialize is
\* pending and none has failed, and none moves it out of ShuttingDown while a
\* cleanup is pending and none has failed; Stopped is never entered while a
\* cleanup is pending.
C16_NoTimeout ==
  [][/\ (/\ lifecycle = "Initializing"
         /\ \E s \in Services : initTask[s] = "pending"
         /\ \A s \in Services : initTask[s] # "raised")
          => lifecycle' = "Initializing"
     /\ (/\ lifecycle = "ShuttingDown"
         /\ \E s \in Services : cleanupTask[s] = "pending"
         /\ \A s \in Services : cleanupTask[s] # "raised")
          => lifecycle' = "ShuttingDown"
     /\ (\E s \in Services : cleanupTask[s] = "pending")
          => lifecycle' # "Stopped"]_vars

C16_Witness ==
  /\ lifecycle = "Initializing"
  /\ initTask["fuzzy_match"] = "done"
  /\ initTask["graph_index"] = "done"
  /\ initTask["query_optimizer"] = "pending"
  /\ initGather.st = "pending"

\* C17: a cleanup has been issued only if every initialize has returned
\* successfully, no initialize is pending, startup raised nothing, and the
\* serving phase has ended (no health check in progress, lifespan past the
\* yield).
C17_CleanupAfterInit ==
  (\E s \in Services : cleanupCalls[s] > 0 \/ cleanupTask[s] # "none") =>
    /\ \A s \in Services : initTask[s] = "done"
    /\ startupError = NoExc
    /\ lifecycle \in ShutdownRun
    /\ hcPos = 0

C17_Witness ==
  /\ lifecycle = "ShuttingDown"
  /\ \A s \in Services : cleanupTask[s] = "pending" /\ cleanupCalls[s] = 1
  /\ \A s \in Services : initTask[s] = "done"
  /\ hcCount > 0

\* C18 (as claimed): when every issued call completes and the shutdown
\* trigger arrives, lifespan eventually is in Stopped or in FailedStartup.
C18_Terminates ==
  <>(lifecycle \in {"Stopped", "FailedStartup"})

\* What the code does reach under the same conditions: lifespan ends, by
\* returning or by the exception of either gather.
LifespanEnds ==
  <>(lifecycle \in {"Stopped", "FailedStartup", "ShutdownFailed"})

====
